---- MODULE Spec2Model ----
(***************************************************************************)
(* Model of the WhatsApp relay bot of src/index.js: the "message" handler  *)
(* registered on the whatsapp-web.js client, the ai() completion wrapper,  *)
(* and the collaborators' outcomes (reply resolves or rejects, completion  *)
(* resolves with a text or rejects with an error).                         *)
(*                                                                         *)
(* Every handler invocation is an async function: it runs synchronously up *)
(* to its next await, and is resumed when the awaited promise settles.     *)
(* One action of the model is one such synchronous run.                    *)
(***************************************************************************)
EXTENDS Integers, Sequences, FiniteSets, TLC

(* ---------------------------- bounds ---------------------------------- *)
MaxMsgs == 2          \* inbound messages delivered in one run
MaxLen == 2           \* longest message body, in characters

(* ---------------------------- values ---------------------------------- *)
Messages == 1..MaxMsgs

\* characters a body is made of: an upper-case letter and a blank
Chars == {"A", " "}

RECURSIVE SeqsUpTo(_)
SeqsUpTo(n) ==
    IF n = 0 THEN {<< >>}
    ELSE LET shorter == SeqsUpTo(n - 1)
         IN  shorter \cup {Append(s, c) : s \in {t \in shorter : Len(t) = n - 1}, c \in Chars}

\* message.body as delivered by the transport: a string, "" for media-only
Bodies == SeqsUpTo(MaxLen)

\* the three literals of the handler
AckText == "AI is Thinking...."
FallbackText == "Sorry, I couldn't process that request."
AiErrorLabel == "AI Error:"

\* texts generateText can resolve with
Texts == {"4", "hello"}
\* the error generateText rejects with when the provider finds no API key in
\* the environment, and the errors it can reject with when there is one
MissingKeyError == "API key is missing"
ServiceErrors == {"timeout", "quota"}
AiErrors == ServiceErrors \cup {MissingKeyError}
\* the events the module registers a listener for
Events == {"qr", "ready", "message"}
\* the error message.reply rejects with when the send fails
ReplyError == "send failed"
Errors == AiErrors \cup {ReplyError}

NoOutcome == <<"none">>
Resolved(t) == <<"ok", t>>
Rejected(e) == <<"err", e>>

(* ---------------------------- state ----------------------------------- *)
VARIABLES
    pc,         \* pc[m]: where the handler of message m is suspended
    body,       \* body[m]: message.body of the delivered message
    msg,        \* msg[m]: the handler's local  const msg
    outbound,   \* outbound[m]: texts passed to message.reply, in call order
    sent,       \* sent[m]: texts whose message.reply resolved
    prompts,    \* prompts[m]: prompts passed to ai(), in call order
    completion, \* completion[m]: how the ai() call of m settled
    log,        \* log[m]: errors the handler of m wrote with console.error
    failure,    \* failure[m]: the error the handler's promise rejected with
    credential, \* the AI service credential is present in the environment
    listeners,  \* events for which client.on has registered a listener
    initCalls,  \* number of client.initialize() calls
    session,    \* last session event the transport has emitted
    proc,       \* the process: loading the module, running, or exited
    exitCode    \* the exit code of the process once it has exited

\* the state written by the module's top-level statements and the transport
boot == <<credential, listeners, initCalls, session>>

vars == <<pc, body, msg, outbound, sent, prompts, completion, log, failure,
          credential, listeners, initCalls, session, proc, exitCode>>

NoError == "none"
\* exitCode is << >> while the process lives and <<code>> once it has exited
NoExit == << >>

(* ---------------------------- strings --------------------------------- *)
\* String.prototype.toLowerCase on one character
LowerChar(c) == IF c = "A" THEN "a" ELSE c

\* message.body.toLowerCase()
ToLowerCase(s) == [i \in 1..Len(s) |-> LowerChar(s[i])]

\* if (msg): a string is truthy iff it is not ""
Truthy(s) == Len(s) > 0

(* ---------------------------- the handler ----------------------------- *)
\* the normalisation with the toLowerCase call left out
NormalizeNoLowerCase(b) == b

\* const msg = message.body.toLowerCase();
Normalize(b) == ToLowerCase(b)

\* the handler with the  if (msg)  check left out
PassesFilterAlways(s) == TRUE

\* if (msg) { ... }
PassesFilter(s) == Truthy(s)

\* the try block replying with the wrong literal instead of aiResponse
ResultTextWrongLiteral(aiResponse) == FallbackText

\* the argument of the reply in the try block: message.reply(aiResponse)
ResultText(aiResponse) == aiResponse

\* the catch block replying with the error's own message
CatchTextLeaksError(error) == error

\* the argument of the reply in the catch block
CatchText(error) == FallbackText

\* console.error("AI Error:", error)
LogEntry(error) == <<AiErrorLabel, error>>

\* message.reply(text) is called: the send is now pending
CallReply(m, text) == outbound' = [outbound EXCEPT ![m] = Append(@, text)]

\* the pending message.reply of m resolved: its text reached the sender
ReplyDone(m) == sent' = [sent EXCEPT ![m] = Append(@, outbound[m][Len(outbound[m])])]

\* ai(msg) is called: generateText is now pending
CallAi(m) == prompts' = [prompts EXCEPT ![m] = Append(@, msg[m])]

\* the catch block: log the error, then reply with the fallback text
Catch(m, error) ==
    /\ log' = [log EXCEPT ![m] = Append(@, LogEntry(error))]
    /\ CallReply(m, CatchText(error))
    /\ pc' = [pc EXCEPT ![m] = "fallback"]

\* an await outside any try rejected: the handler's promise rejects.  The
\* emitter drops the promise the async listener returns and the module
\* registers no unhandledRejection handler, so Node.js (v18 or higher, as the
\* README requires) ends the process with exit code 1.
Throw(m, error) ==
    /\ failure' = [failure EXCEPT ![m] = error]
    /\ pc' = [pc EXCEPT ![m] = "rejected"]
    /\ proc' = "exited"
    /\ exitCode' = <<1>>

\* the handler with the await of the acknowledgment reply left out: ai(msg)
\* is called in the same run as message.reply(ack)
OnMessageNoAwait(m, b) ==
    /\ proc = "running"
    /\ session = "ready"
    /\ "message" \in listeners
    /\ pc[m] = "idle"
    /\ \A k \in Messages : k < m => pc[k] # "idle"
    /\ body' = [body EXCEPT ![m] = b]
    /\ msg' = [msg EXCEPT ![m] = Normalize(b)]
    /\ IF PassesFilter(Normalize(b))
       THEN /\ CallReply(m, AckText)
            /\ prompts' = [prompts EXCEPT ![m] = Append(@, Normalize(b))]
            /\ pc' = [pc EXCEPT ![m] = "ack"]
       ELSE /\ pc' = [pc EXCEPT ![m] = "resolved"]
            /\ UNCHANGED <<outbound, prompts>>
    /\ UNCHANGED <<sent, completion, log, failure, boot, proc, exitCode>>

\* the handler behind a queue that runs one message cycle at a time
OnMessageSerialized(m, b) ==
    /\ proc = "running"
    /\ session = "ready"
    /\ "message" \in listeners
    /\ pc[m] = "idle"
    /\ \A k \in Messages : k < m => pc[k] \in {"resolved", "rejected"}
    /\ body' = [body EXCEPT ![m] = b]
    /\ msg' = [msg EXCEPT ![m] = Normalize(b)]
    /\ IF PassesFilter(Normalize(b))
       THEN /\ CallReply(m, AckText)
            /\ pc' = [pc EXCEPT ![m] = "ack"]
       ELSE /\ pc' = [pc EXCEPT ![m] = "resolved"]
            /\ UNCHANGED outbound
    /\ UNCHANGED <<sent, prompts, completion, log, failure, boot, proc, exitCode>>

\* the "message" event fires with message.body = b; the handler runs up to
\* its first await (messages are numbered in the order the events fire)
OnMessage(m, b) ==
    /\ proc = "running"
    /\ session = "ready"
    /\ "message" \in listeners
    /\ pc[m] = "idle"
    /\ \A k \in Messages : k < m => pc[k] # "idle"
    /\ body' = [body EXCEPT ![m] = b]
    /\ msg' = [msg EXCEPT ![m] = Normalize(b)]
    /\ IF PassesFilter(Normalize(b))
       THEN /\ CallReply(m, AckText)
            /\ pc' = [pc EXCEPT ![m] = "ack"]
       ELSE /\ pc' = [pc EXCEPT ![m] = "resolved"]
            /\ UNCHANGED outbound
    /\ UNCHANGED <<sent, prompts, completion, log, failure, boot, proc, exitCode>>

\* await message.reply("AI is Thinking....") resolved: enter the try block
\* and call ai(msg)
AckReplyResolves(m) ==
    /\ proc = "running"
    /\ pc[m] = "ack"
    /\ ReplyDone(m)
    /\ CallAi(m)
    /\ pc' = [pc EXCEPT ![m] = "ai"]
    /\ UNCHANGED <<body, msg, outbound, completion, log, failure, boot, proc, exitCode>>

\* the acknowledgment reply wrapped in a try of its own that swallows the
\* rejection and goes on to the completion call
AckReplyRejectsSwallowed(m) ==
    /\ proc = "running"
    /\ pc[m] = "ack"
    /\ CallAi(m)
    /\ pc' = [pc EXCEPT ![m] = "ai"]
    /\ UNCHANGED <<body, msg, outbound, sent, completion, log, failure, boot, proc, exitCode>>

\* await message.reply("AI is Thinking....") rejected: it is outside the try
AckReplyRejects(m) ==
    /\ proc = "running"
    /\ pc[m] = "ack"
    /\ Throw(m, ReplyError)
    /\ UNCHANGED <<body, msg, outbound, sent, prompts, completion, log, boot>>

\* the errors generateText can reject with in this process: google(...) is
\* built inside ai(), so a missing API key surfaces on every call and nowhere
\* else
CompletionErrors == IF credential THEN ServiceErrors ELSE {MissingKeyError}

\* await ai(msg) resolved with text t: reply with it
AiResolves(m, t) ==
    /\ proc = "running"
    /\ pc[m] = "ai"
    /\ credential
    /\ completion' = [completion EXCEPT ![m] = Resolved(t)]
    /\ CallReply(m, ResultText(t))
    /\ pc' = [pc EXCEPT ![m] = "result"]
    /\ UNCHANGED <<body, msg, sent, prompts, log, failure, boot, proc, exitCode>>

\* the catch block retrying the completion once before it gives up
AiRejectsRetry(m, e) ==
    /\ proc = "running"
    /\ pc[m] = "ai"
    /\ e \in CompletionErrors
    /\ completion' = [completion EXCEPT ![m] = Rejected(e)]
    /\ IF Len(prompts[m]) < 2
       THEN /\ CallAi(m)
            /\ UNCHANGED <<pc, outbound, log>>
       ELSE /\ Catch(m, e)
            /\ UNCHANGED prompts
    /\ UNCHANGED <<body, msg, sent, failure, boot, proc, exitCode>>

\* await ai(msg) rejected with error e: the catch block runs
AiRejects(m, e) ==
    /\ proc = "running"
    /\ pc[m] = "ai"
    /\ e \in CompletionErrors
    /\ completion' = [completion EXCEPT ![m] = Rejected(e)]
    /\ Catch(m, e)
    /\ UNCHANGED <<body, msg, sent, prompts, failure, boot, proc, exitCode>>

\* await message.reply(aiResponse) resolved: the handler returns
ResultReplyResolves(m) ==
    /\ proc = "running"
    /\ pc[m] = "result"
    /\ ReplyDone(m)
    /\ pc' = [pc EXCEPT ![m] = "resolved"]
    /\ UNCHANGED <<body, msg, outbound, prompts, completion, log, failure, boot, proc, exitCode>>

\* await message.reply(aiResponse) rejected: it is inside the try, so the
\* same catch block runs
ResultReplyRejects(m) ==
    /\ proc = "running"
    /\ pc[m] = "result"
    /\ Catch(m, ReplyError)
    /\ UNCHANGED <<body, msg, sent, prompts, completion, failure, boot, proc, exitCode>>

\* await message.reply(fallback) resolved: the handler returns
FallbackReplyResolves(m) ==
    /\ proc = "running"
    /\ pc[m] = "fallback"
    /\ ReplyDone(m)
    /\ pc' = [pc EXCEPT ![m] = "resolved"]
    /\ UNCHANGED <<body, msg, outbound, prompts, completion, log, failure, boot, proc, exitCode>>

\* await message.reply(fallback) rejected: it is inside the catch block,
\* which no other try encloses
FallbackReplyRejects(m) ==
    /\ proc = "running"
    /\ pc[m] = "fallback"
    /\ Throw(m, ReplyError)
    /\ UNCHANGED <<body, msg, outbound, sent, prompts, completion, log, boot>>

(* ---------------------------- module start-up ------------------------- *)
\* client.on(event, listener), one top-level statement of the module
Register(event, before) ==
    /\ proc = "loading"
    /\ listeners = before
    /\ listeners' = listeners \cup {event}
    /\ UNCHANGED <<pc, body, msg, outbound, sent, prompts, completion, log, failure,
                   credential, initCalls, session, proc, exitCode>>

RegisterQr == Register("qr", {})
RegisterReady == Register("ready", {"qr"})
RegisterMessage == Register("message", {"qr", "ready"})

\* client.initialize() written before the "message" listener is registered
InitializeBeforeMessageListener ==
    /\ proc = "loading"
    /\ initCalls = 0
    /\ listeners = {"qr", "ready"}
    /\ initCalls' = initCalls + 1
    /\ UNCHANGED <<pc, body, msg, outbound, sent, prompts, completion, log, failure,
                   credential, listeners, session, proc, exitCode>>

\* client.initialize(), the last top-level statement: the module has run and
\* the process waits for events.  Nothing before it reads the credential.
Initialize ==
    /\ proc = "loading"
    /\ listeners = Events
    /\ initCalls' = initCalls + 1
    /\ proc' = "running"
    /\ UNCHANGED <<pc, body, msg, outbound, sent, prompts, completion, log, failure,
                   credential, listeners, session, exitCode>>

\* the transport emits "qr": the listener prints the code
OnQr ==
    /\ proc = "running"
    /\ initCalls > 0
    /\ "qr" \in listeners
    /\ session = "none"
    /\ session' = "qr"
    /\ UNCHANGED <<pc, body, msg, outbound, sent, prompts, completion, log, failure,
                   credential, listeners, initCalls, proc, exitCode>>

\* the transport emits "ready" (after a scan, or at once for a saved session)
OnReady ==
    /\ proc = "running"
    /\ initCalls > 0
    /\ "ready" \in listeners
    /\ session \in {"none", "qr"}
    /\ session' = "ready"
    /\ UNCHANGED <<pc, body, msg, outbound, sent, prompts, completion, log, failure,
                   credential, listeners, initCalls, proc, exitCode>>

(* ---------------------------- specification --------------------------- *)
Init ==
    /\ credential \in BOOLEAN
    /\ listeners = {}
    /\ initCalls = 0
    /\ session = "none"
    /\ proc = "loading"
    /\ exitCode = NoExit
    /\ pc = [m \in Messages |-> "idle"]
    /\ body = [m \in Messages |-> << >>]
    /\ msg = [m \in Messages |-> << >>]
    /\ outbound = [m \in Messages |-> << >>]
    /\ sent = [m \in Messages |-> << >>]
    /\ prompts = [m \in Messages |-> << >>]
    /\ completion = [m \in Messages |-> NoOutcome]
    /\ log = [m \in Messages |-> << >>]
    /\ failure = [m \in Messages |-> NoError]

Next ==
    \/ RegisterQr
    \/ RegisterReady
    \/ RegisterMessage
    \/ Initialize
    \/ OnQr
    \/ OnReady
    \/ \E m \in Messages, b \in Bodies : OnMessage(m, b)
    \/ \E m \in Messages : AckReplyResolves(m)
    \/ \E m \in Messages : AckReplyRejects(m)
    \/ \E m \in Messages, t \in Texts : AiResolves(m, t)
    \/ \E m \in Messages, e \in AiErrors : AiRejects(m, e)
    \/ \E m \in Messages : ResultReplyResolves(m)
    \/ \E m \in Messages : ResultReplyRejects(m)
    \/ \E m \in Messages : FallbackReplyResolves(m)
    \/ \E m \in Messages : FallbackReplyRejects(m)

Spec == Init /\ [][Next]_vars

TypeOK ==
    /\ pc \in [Messages -> {"idle", "ack", "ai", "result", "fallback", "resolved", "rejected"}]
    /\ \A m \in Messages : body[m] \in Bodies
    /\ \A m \in Messages : Len(outbound[m]) <= 3
    /\ \A m \in Messages : failure[m] \in Errors \cup {NoError}
    /\ credential \in BOOLEAN
    /\ listeners \subseteq Events
    /\ initCalls \in 0..1
    /\ session \in {"none", "qr", "ready"}
    /\ proc \in {"loading", "running", "exited"}
    /\ exitCode \in {NoExit, <<1>>}
    /\ (proc = "exited") = (exitCode # NoExit)

(* ---------------------------- vocabulary of the properties ------------ *)
\* String.prototype.trim, as the README's validation example uses it
RECURSIVE TrimLeft(_)
TrimLeft(s) == IF Len(s) > 0 /\ s[1] = " " THEN TrimLeft(Tail(s)) ELSE s

RECURSIVE TrimRight(_)
TrimRight(s) ==
    IF Len(s) > 0 /\ s[Len(s)] = " " THEN TrimRight(SubSeq(s, 1, Len(s) - 1)) ELSE s

Trim(s) == TrimRight(TrimLeft(s))

\* the body is empty or consists of whitespace only
IsBlank(b) == Trim(b) = << >>

\* the handler of m has been invoked / has run to its end
Delivered(m) == pc[m] # "idle"
Ended(m) == pc[m] \in {"resolved", "rejected"}

\* the handler of m is suspended at an await
InFlight(m) == pc[m] \in {"ack", "ai", "result", "fallback"}

\* a message.reply of m is called and has not settled
Pending(m) == IF pc[m] \in {"ack", "result", "fallback"} THEN 1 ELSE 0

\* the number of message.reply calls of m that rejected
FailedSends(m) == Len(outbound[m]) - Len(sent[m]) - Pending(m)

(* ---------------------------- C1 -------------------------------------- *)
\* C1: every message handled to its end got exactly one result reply after
\* the acknowledgment (AI text or fallback, never both, never neither) and
\* its handler did not end in an uncaught failure.  Stated for the messages
\* that pass the filter; the silence on filtered messages is C5 and C6.
C1_ExactlyOneResultNoFailure ==
    \A m \in Messages :
        (Ended(m) /\ PassesFilter(msg[m])) =>
            /\ pc[m] = "resolved"
            /\ Len(outbound[m]) = 2
            /\ outbound[m][2] \in Texts \cup {FallbackText}

(* ---------------------------- C2 -------------------------------------- *)
\* C2: for a message with a non-empty body the number of outbound reply
\* attempts is never zero and never more than two.
C2_AttemptsBetweenOneAndTwo ==
    \A m \in Messages :
        (Delivered(m) /\ body[m] # << >>) =>
            /\ Len(outbound[m]) >= 1
            /\ Len(outbound[m]) <= 2

(* ---------------------------- C3 -------------------------------------- *)
\* C3: when the completion call resolved with text T and every reply of the
\* message succeeded, the outbound sequence is exactly
\* <<"AI is Thinking....", T>>: T unchanged and no fallback.
C3_SuccessSequence ==
    \A m \in Messages : \A t \in Texts :
        (/\ Ended(m)
         /\ completion[m] = Resolved(t)
         /\ FailedSends(m) = 0) =>
            /\ outbound[m] = <<AckText, t>>
            /\ sent[m] = <<AckText, t>>
            /\ pc[m] = "resolved"

C3_Witness ==
    \E m \in Messages :
        /\ pc[m] = "resolved"
        /\ completion[m] = Resolved("4")
        /\ sent[m] = <<AckText, "4">>

(* ---------------------------- C4 -------------------------------------- *)
\* C4: when the completion call rejected, the outbound sequence is exactly
\* <<"AI is Thinking....", fallback>>, the rejection reason is in the log
\* and no outbound text is an error text; once the fallback send resolves
\* the sender has received exactly the acknowledgment and the fallback.
C4_FailureSequence ==
    \A m \in Messages : \A e \in AiErrors :
        completion[m] = Rejected(e) =>
            /\ outbound[m] = <<AckText, FallbackText>>
            /\ log[m] = <<LogEntry(e)>>
            /\ \A i \in 1..Len(outbound[m]) : outbound[m][i] \notin Errors
            /\ pc[m] = "resolved" => sent[m] = <<AckText, FallbackText>>

C4_Witness ==
    \E m \in Messages :
        /\ completion[m] = Rejected("timeout")
        /\ pc[m] = "resolved"
        /\ sent[m] = <<AckText, FallbackText>>
        /\ log[m] = <<LogEntry("timeout")>>

(* ---------------------------- C5 -------------------------------------- *)
\* C5: a message whose body is empty or whitespace-only gets no
\* acknowledgment, no completion call and no result reply.
C5_BlankBodyIsSilent ==
    \A m \in Messages :
        (Delivered(m) /\ IsBlank(body[m])) =>
            /\ outbound[m] = << >>
            /\ prompts[m] = << >>

(* ---------------------------- C6 -------------------------------------- *)
\* C6: a message whose body is the empty string produces the empty outbound
\* sequence, never reaches the completion call, and its handler resolves.
C6_EmptyBodyIsSilent ==
    \A m \in Messages :
        (Delivered(m) /\ body[m] = << >>) =>
            /\ outbound[m] = << >>
            /\ sent[m] = << >>
            /\ prompts[m] = << >>
            /\ completion[m] = NoOutcome
            /\ pc[m] = "resolved"

C6_Witness ==
    \E m \in Messages :
        /\ Delivered(m)
        /\ body[m] = << >>
        /\ pc[m] = "resolved"
        /\ \E k \in Messages : k # m /\ Len(outbound[k]) > 0

(* ---------------------------- C7 -------------------------------------- *)
\* C7 as stated: the prompt of a message that passes the filter is its body
\* trimmed and lower-cased.
C7_PromptIsTrimmedLowerCase ==
    \A m \in Messages :
        ~IsBlank(body[m]) =>
            \A i \in 1..Len(prompts[m]) : prompts[m][i] = ToLowerCase(Trim(body[m]))

\* C7 as amended: the prompt of a message that passes the filter is its body
\* lower-cased and otherwise unchanged (leading and trailing whitespace are
\* kept).
C7_PromptIsLowerCase ==
    \A m \in Messages :
        /\ pc[m] \in {"ai", "result", "fallback"} => Len(prompts[m]) = 1
        /\ \A i \in 1..Len(prompts[m]) : prompts[m][i] = ToLowerCase(body[m])

C7_Witness ==
    \E m \in Messages :
        /\ body[m] = <<" ", "A">>
        /\ prompts[m] = << <<" ", "a">> >>

(* ---------------------------- C8 -------------------------------------- *)
\* C8: the handler's promise never rejects, whatever the collaborators do.
C8_HandlerNeverRejects ==
    \A m \in Messages : pc[m] # "rejected" /\ failure[m] = NoError

(* ---------------------------- C9 -------------------------------------- *)
\* C9: after a reply send of a message failed, the handler attempts no
\* further outbound reply for that message: a failed send is the last
\* attempt of its message.
C9_NoReplyAfterFailedSend ==
    \A m \in Messages :
        FailedSends(m) > 0 =>
            /\ Pending(m) = 0
            /\ sent[m] = SubSeq(outbound[m], 1, Len(outbound[m]) - 1)

(* ---------------------------- C10 ------------------------------------- *)
\* C10: the completion call is invoked at most once per message, whether it
\* resolves or rejects and whether the later reply succeeds or fails.
C10_AtMostOneCompletionCall ==
    \A m \in Messages :
        /\ Len(prompts[m]) <= 1
        /\ completion[m] # NoOutcome => Len(prompts[m]) = 1

C10_Witness ==
    \E m \in Messages : \E e \in AiErrors :
        /\ completion[m] = Rejected(e)
        /\ pc[m] = "rejected"
        /\ Len(prompts[m]) = 1

(* ---------------------------- C11 ------------------------------------- *)
\* C11: the steps of one message cycle are ordered filter, acknowledgment,
\* completion call, result reply: a filtered message gets no reply, the
\* acknowledgment is the first outbound reply and the only acknowledgment,
\* no completion call is made while the acknowledgment send is pending, and
\* no further reply is attempted before the completion call has settled.
C11_StepsInOrder ==
    \A m \in Messages :
        /\ (Delivered(m) /\ ~PassesFilter(msg[m])) => outbound[m] = << >>
        /\ \A i \in 1..Len(outbound[m]) : (outbound[m][i] = AckText) = (i = 1)
        /\ pc[m] = "ack" => (prompts[m] = << >> /\ Len(outbound[m]) = 1)
        /\ pc[m] = "ai" => (sent[m] = <<AckText>> /\ outbound[m] = <<AckText>>)
        /\ Len(outbound[m]) >= 2 => (completion[m] # NoOutcome /\ Len(prompts[m]) = 1)

C11_Witness ==
    \E m \in Messages :
        /\ pc[m] = "resolved"
        /\ Len(prompts[m]) = 1
        /\ Len(sent[m]) = 2
        /\ sent[m][1] = AckText

(* ---------------------------- C12 ------------------------------------- *)
\* C12: handler invocations are not serialized: while the process runs, the
\* next message can be delivered and every suspended handler can take its
\* next step whatever the other handlers are doing (the handler never reads
\* the sender, so this is also true of two messages of one sender).
C12_HandlersNotSerialized ==
    \A m \in Messages :
        proc = "running" =>
            /\ (/\ pc[m] = "idle"
                /\ session = "ready"
                /\ \A k \in Messages : k < m => pc[k] # "idle")
                    => ENABLED OnMessage(m, <<"A">>)
            /\ pc[m] = "ack" => ENABLED AckReplyResolves(m)
            /\ (pc[m] = "ai" /\ credential) => ENABLED AiResolves(m, "4")
            /\ pc[m] = "result" => ENABLED ResultReplyResolves(m)

\* the later message has its result delivered while the completion call of
\* the earlier one is still pending
C12_Witness ==
    \E k, m \in Messages :
        /\ k < m
        /\ pc[k] = "ai"
        /\ pc[m] = "resolved"
        /\ sent[m] = <<AckText, "hello">>
        /\ Len(outbound[k]) = 1

(* ---------------------------- C13 ------------------------------------- *)
\* C13: every acknowledged message eventually gets a result reply attempt.
\* Once the process has exited no step can follow, so the claim requires
\* that every message acknowledged by then has had its result attempt.
C13_AcknowledgedGetsResultAttempt ==
    \A m \in Messages :
        (proc = "exited" /\ Len(sent[m]) >= 1) => Len(outbound[m]) >= 2

(* ---------------------------- C14 ------------------------------------- *)
\* C14: an error raised anywhere inside the handler, also before the try
\* block, is caught at the handler boundary and logged, and the message is
\* not left without a reply.
C14_EveryHandlerErrorCaughtAndLogged ==
    \A m \in Messages :
        FailedSends(m) > 0 =>
            /\ Len(log[m]) >= 1
            /\ Len(sent[m]) >= 1

(* ---------------------------- C15 ------------------------------------- *)
\* C15: without the AI service credential in the environment the process
\* exits non-zero at start-up: it never calls initialize, never runs and
\* never handles a message.
C15_MissingCredentialIsFatal ==
    ~credential =>
        /\ initCalls = 0
        /\ proc # "running"
        /\ \A m \in Messages : ~Delivered(m)

(* ---------------------------- C16 ------------------------------------- *)
\* C16: initialize is called exactly once, at process start and after the
\* qr, ready and message listeners are registered: no session or message
\* event fires before initialize or before its listener exists.
C16_InitializeOnceAfterListeners ==
    /\ initCalls <= 1
    /\ initCalls > 0 => listeners = Events
    /\ proc # "loading" => initCalls = 1
    /\ (session # "none" \/ \E m \in Messages : Delivered(m)) =>
            (initCalls = 1 /\ listeners = Events)

C16_Witness ==
    /\ initCalls = 1
    /\ listeners = Events
    /\ session = "ready"
    /\ \E m \in Messages : Delivered(m)

(* ---------------------------- C17 ------------------------------------- *)
\* C17: the fallback text is replied for a message only if the completion
\* call of that message rejected.
C17_FallbackOnlyAfterCompletionFailure ==
    \A m \in Messages :
        (\E i \in 1..Len(outbound[m]) : outbound[m][i] = FallbackText) =>
            \E e \in AiErrors : completion[m] = Rejected(e)

(* ---------------------------- C18 ------------------------------------- *)
\* C18: the completion call is made only after the acknowledgment reply of
\* the message resolved; when the acknowledgment send rejected there is no
\* completion call and no result or fallback reply for the message.
C18_CompletionOnlyAfterAckSent ==
    \A m \in Messages :
        /\ prompts[m] # << >> => (Len(sent[m]) >= 1 /\ sent[m][1] = AckText)
        /\ (FailedSends(m) > 0 /\ sent[m] = << >>) =>
                /\ prompts[m] = << >>
                /\ completion[m] = NoOutcome
                /\ outbound[m] = <<AckText>>
                /\ pc[m] = "rejected"

C18_Witness ==
    \E m \in Messages :
        /\ pc[m] = "rejected"
        /\ outbound[m] = <<AckText>>
        /\ sent[m] = << >>
        /\ prompts[m] = << >>

(* ---------------------------- C19 ------------------------------------- *)
\* C19: handlers are isolated: a failure or rejection in one handler does
\* not change what another in-flight handler does, so a handler suspended
\* at an await can always go on when its own promise settles.
C19_InFlightHandlersUnaffected ==
    \A k \in Messages : InFlight(k) => proc = "running"

====
